---- MODULE Spec2Model ----
(***************************************************************************)
(* go-rtpengine: the NG protocol client.                                   *)
(*                                                                         *)
(* The model covers the wire codec of rtpengine.go (EncodeComando,         *)
(* DecodeResposta) and the exchange engine of client.go (NewClient,        *)
(* NewComando = ComandoNG ; RespostaNG, Close) over one connection shared  *)
(* by several callers.                                                     *)
(*                                                                         *)
(* Byte strings are sequences of one-character strings, so that the index  *)
(* of the first space, the length of the cookie and the bencode length     *)
(* prefixes are computed as the code computes them.                        *)
(***************************************************************************)
EXTENDS Integers, Sequences, FiniteSets, TLC

VARIABLES
    client,   \* the Client / Engine fields: con, conUDP, proto, timeout, deadline
    now,      \* wall clock, in seconds
    inbox,    \* datagrams queued at the client's socket, oldest first
    sent,     \* cookies of the requests the proxy has received and not answered
    calls,    \* per NewComando call: its position and locals
    ncalls,   \* number of NewComando calls started (the cookie source's counter)
    codec,    \* the arguments and result of a direct call of the codec
    req       \* a request under construction: the builder's arguments and results

vars == <<client, now, inbox, sent, calls, ncalls, codec, req>>

----------------------------------------------------------------------------
(* Bounds *)

MaxRawLen == 4      \* longest enumerated raw buffer of the codec specification
MaxCookieLen == 2   \* longest enumerated cookie of the codec specification
PadLen == 1         \* zero bytes kept after the datagram in the read buffer
MaxTime == 12       \* the clock stops here

(* Program constants *)

DeadlineSecs == 10  \* conn.SetReadDeadline(time.Now().Add(10 * time.Second))
SleepSecs == 1      \* time.Sleep(1 * time.Second) before the read
DefaultTimeoutSecs == 10 \* timeout: 10 * time.Second

Second == 1000000000 \* time.Second, in nanoseconds (the unit of time.Duration)
Millisecond == 1000000 \* time.Millisecond, in nanoseconds

----------------------------------------------------------------------------
(* Byte strings *)

SP == " "
NUL == "\\0"

sResult == <<"r","e","s","u","l","t">>
sSdp == <<"s","d","p">>
sErrorReason == <<"e","r","r","o","r","-","r","e","a","s","o","n">>
sWarning == <<"w","a","r","n","i","n","g">>
sError == <<"e","r","r","o","r">>
sOk == <<"o","k">>
sPong == <<"p","o","n","g">>
sFailedParse == <<"F","a","i","l","e","d"," ","t","o"," ","p","a","r","s","e"," ","t","h","e"," ","m","e","s","s","a","g","e">>
sCookieMismatch == <<"C","o","o","k","i","e"," ","m","i","s","m","a","t","c","h">>

Digits == <<"0","1","2","3","4","5","6","7","8","9">>

IsDigit(ch) == \E k \in 1..10 : Digits[k] = ch

DigitVal(ch) == (CHOOSE k \in 1..10 : Digits[k] = ch) - 1

\* bytes.IndexAny(s, chars): 0-based index of the first byte of s in chars, or -1
IndexAny(s, chars) ==
    IF \E k \in 1..Len(s) : s[k] \in chars
    THEN (CHOOSE k \in 1..Len(s) : s[k] \in chars /\ \A j \in 1..(k-1) : s[j] \notin chars) - 1
    ELSE -1

\* s[from:] with a 0-based from
SliceFrom(s, from) == SubSeq(s, from + 1, Len(s))

\* s[:to] with a 0-based, exclusive to
SliceTo(s, to) == SubSeq(s, 1, to)

----------------------------------------------------------------------------
(* The bencode parser behind ben.NewParserFromString(encodedData).AsDict() *)
(* Values are [t, v]: "s" byte string, "i" integer, "l" list of values,    *)
(* "d" dictionary as a sequence of <<key, value>> pairs.                   *)

ParseFail == [ok |-> FALSE, t |-> "x", v |-> <<>>, next |-> 0]

\* first position >= i of s holding no digit (Len(s)+1 when digits run to the end)
DigitsEnd(s, i) ==
    IF \E j \in i..Len(s) : ~IsDigit(s[j])
    THEN CHOOSE j \in i..Len(s) : ~IsDigit(s[j]) /\ \A k \in i..(j-1) : IsDigit(s[k])
    ELSE Len(s) + 1

RECURSIVE Number(_, _, _)
\* the decimal number written at positions i..(j-1) of s
Number(s, i, j) ==
    IF i >= j THEN 0 ELSE Number(s, i, j - 1) * 10 + DigitVal(s[j - 1])

\* <length>:<bytes> at position i
ParseString(s, i) ==
    LET j == DigitsEnd(s, i)
        n == Number(s, i, j)
    IN  IF i > Len(s) \/ j = i \/ j > Len(s) \/ s[j] # ":" \/ j + n > Len(s)
        THEN ParseFail
        ELSE [ok |-> TRUE, t |-> "s", v |-> SubSeq(s, j + 1, j + n), next |-> j + n + 1]

\* i<digits>e at position i (an optional minus sign before the digits)
ParseInt(s, i) ==
    LET neg == i + 1 <= Len(s) /\ s[i + 1] = "-"
        b == IF neg THEN i + 2 ELSE i + 1
        j == DigitsEnd(s, b)
    IN  IF b > Len(s) \/ j = b \/ j > Len(s) \/ s[j] # "e"
        THEN ParseFail
        ELSE [ok |-> TRUE, t |-> "i",
              v |-> IF neg THEN 0 - Number(s, b, j) ELSE Number(s, b, j),
              next |-> j + 1]

RECURSIVE ParseValue(_, _)
RECURSIVE ParseList(_, _, _)
RECURSIVE ParseDictBody(_, _, _)

\* the items of a list up to its closing "e"
ParseList(s, i, acc) ==
    IF i > Len(s) THEN ParseFail
    ELSE IF s[i] = "e" THEN [ok |-> TRUE, t |-> "l", v |-> acc, next |-> i + 1]
    ELSE LET item == ParseValue(s, i)
         IN  IF ~item.ok THEN ParseFail
             ELSE ParseList(s, item.next, Append(acc, [t |-> item.t, v |-> item.v]))

\* the key/value pairs of a dictionary up to its closing "e"
ParseDictBody(s, i, acc) ==
    IF i > Len(s) THEN ParseFail
    ELSE IF s[i] = "e" THEN [ok |-> TRUE, t |-> "d", v |-> acc, next |-> i + 1]
    ELSE LET key == ParseString(s, i)
         IN  IF ~key.ok THEN ParseFail
             ELSE LET val == ParseValue(s, key.next)
                  IN  IF ~val.ok THEN ParseFail
                      ELSE ParseDictBody(s, val.next,
                                         Append(acc, <<key.v, [t |-> val.t, v |-> val.v]>>))

ParseValue(s, i) ==
    IF i > Len(s) THEN ParseFail
    ELSE IF s[i] = "d" THEN ParseDictBody(s, i + 1, <<>>)
    ELSE IF s[i] = "l" THEN ParseList(s, i + 1, <<>>)
    ELSE IF s[i] = "i" THEN ParseInt(s, i)
    ELSE ParseString(s, i)

\* AsDict: the buffer must start with a dictionary; bytes after its closing "e"
\* (the zero padding of the read buffer) are not looked at
AsDict(s) ==
    IF Len(s) >= 1 /\ s[1] = "d" THEN ParseValue(s, 1) ELSE ParseFail

\* whether dictionary d (a sequence of pairs) has key k bound to a byte string
HasString(d, k) == \E n \in 1..Len(d) : d[n][1] = k /\ d[n][2].t = "s"

\* the byte string bound to k: the last such pair wins
GetString(d, k) ==
    LET n == CHOOSE m \in 1..Len(d) :
                 /\ d[m][1] = k /\ d[m][2].t = "s"
                 /\ \A j \in (m + 1)..Len(d) : ~(d[j][1] = k /\ d[j][2].t = "s")
    IN  d[n][2].v

----------------------------------------------------------------------------
(* ResponseRtp and DecodeResposta *)

sFromTag == <<"f","r","o","m","-","t","a","g">>
sToTag == <<"t","o","-","t","a","g">>

\* a nil pointer
Nil == [nil |-> TRUE]

\* &ResponseRtp{}: every field at its zero value (the string fields of the struct;
\* its numeric, list and opaque fields are never read by the client)
EmptyResponse == [Result |-> <<>>, Sdp |-> <<>>, ErrorReason |-> <<>>, Warning |-> <<>>,
                  FromTag |-> <<>>, ToTag |-> <<>>]

\* MapDecode that fills no sdp
MutMapDecodeNoSdp(d) ==
    LET field(k) == IF HasString(d, k) THEN GetString(d, k) ELSE <<>>
    IN  [Result |-> field(sResult), Sdp |-> <<>>,
         ErrorReason |-> field(sErrorReason), Warning |-> field(sWarning),
         FromTag |-> field(sFromTag), ToTag |-> field(sToTag)]

\* mapstructure with TagName "json": a string field takes the value of its key
\* when the dictionary binds the key to a string, and keeps its zero value otherwise
MapDecode(d) ==
    LET field(k) == IF HasString(d, k) THEN GetString(d, k) ELSE <<>>
    IN  [Result |-> field(sResult), Sdp |-> field(sSdp),
         ErrorReason |-> field(sErrorReason), Warning |-> field(sWarning),
         FromTag |-> field(sFromTag), ToTag |-> field(sToTag)]

FrameErrorResponse == [EmptyResponse EXCEPT !.Result = sError, !.ErrorReason = sFailedParse]

CookieMismatchResponse == [EmptyResponse EXCEPT !.Result = sError, !.ErrorReason = sCookieMismatch]

\* DecodeResposta checking only that the buffer starts with the cookie
MutDecodePrefix(cookie, resposta) ==
    LET cookieIndex == IndexAny(resposta, {SP})
    IN  IF cookieIndex < 0 THEN FrameErrorResponse
        ELSE IF Len(resposta) < Len(cookie) \/ SliceTo(resposta, Len(cookie)) # cookie
        THEN CookieMismatchResponse
        ELSE LET decodedDataRaw == AsDict(SliceFrom(resposta, cookieIndex + 1))
             IN  IF ~decodedDataRaw.ok THEN EmptyResponse
                 ELSE MapDecode(decodedDataRaw.v)

\* DecodeResposta without the comparison of the cookie's bytes
MutDecodeNoCompare(cookie, resposta) ==
    LET cookieIndex == IndexAny(resposta, {SP})
    IN  IF cookieIndex # Len(cookie) THEN FrameErrorResponse
        ELSE LET decodedDataRaw == AsDict(SliceFrom(resposta, cookieIndex + 1))
             IN  IF ~decodedDataRaw.ok THEN EmptyResponse
                 ELSE MapDecode(decodedDataRaw.v)

DecodeResposta(cookie, resposta) ==
    LET cookieIndex == IndexAny(resposta, {SP})
    IN  IF cookieIndex # Len(cookie) THEN FrameErrorResponse
        ELSE IF SliceTo(resposta, cookieIndex) # cookie THEN CookieMismatchResponse
        ELSE LET decodedDataRaw == AsDict(SliceFrom(resposta, cookieIndex + 1))
             IN  IF ~decodedDataRaw.ok THEN EmptyResponse
                 ELSE MapDecode(decodedDataRaw.v)

----------------------------------------------------------------------------
(* The parameter model: RequestRtp and its three aggregates *)

sCommand == <<"c","o","m","m","a","n","d">>
sPing == <<"p","i","n","g">>
sOffer == <<"o","f","f","e","r">>
sAnswer == <<"a","n","s","w","e","r">>
sDelete == <<"d","e","l","e","t","e">>

sCallId == <<"c","a","l","l","-","i","d">>
sTransportProtocol == <<"t","r","a","n","s","p","o","r","t","-","p","r","o","t","o","c","o","l">>
sMediaAddress == <<"m","e","d","i","a","-","a","d","d","r","e","s","s">>
sICE == <<"I","C","E">>
sViaBranch == <<"v","i","a","-","b","r","a","n","c","h">>
sRecordCall == <<"r","e","c","o","r","d","-","c","a","l","l">>
sPtime == <<"p","t","i","m","e">>
sPtimeReverse == <<"p","t","i","m","e","-","r","e","v","e","r","s","e">>
sFlags == <<"f","l","a","g","s">>
sReplace == <<"r","e","p","l","a","c","e">>
sReceivedFrom == <<"r","e","c","e","i","v","e","d","-","f","r","o","m">>
sSDES == <<"S","D","E","S">>
sStartPos == <<"s","t","a","r","t","-","p","o","s">>
sRStartPos == <<"r","s","t","a","r","t","-","p","o","s">>

RTP_AVP == <<"R","T","P","/","A","V","P">>
RTP_SAVP == <<"R","T","P","/","S","A","V","P">>
TrustAddress == <<"t","r","u","s","t","-","a","d","d","r","e","s","s">>
Symmetric == <<"s","y","m","m","e","t","r","i","c">>
Origin == <<"o","r","i","g","i","n">>
AddressFamilyIP4 == <<"I","P","4">>
AddressFamilyIP6 == <<"I","P","6">>
CODEC_PCMA == <<"P","C","M","A">>
CODEC_G729 == <<"G","7","2","9">>
SRTP_AEAD_AES_256_GCM == <<"A","E","A","D","_","A","E","S","_","2","5","6","_","G","C","M">>
SDESOff == <<"o","f","f">>

\* &ParamsOptString{}: the string options the builders and options touch
EmptyParamsOptString ==
    [FromTag |-> <<>>, ToTag |-> <<>>, CallId |-> <<>>, TransportProtocol |-> <<>>,
     MediaAddress |-> <<>>, ICE |-> <<>>, ViaBranch |-> <<>>, Sdp |-> <<>>, RecordCall |-> <<>>]

\* &ParamsOptInt{}: a bare int per option, zero when never assigned
EmptyParamsOptInt == [Ptime |-> 0, PtimeReverse |-> 0, StartPos |-> 0]

\* &ParamsOptStringArray{}: a slice per option, of length zero when never assigned
EmptyParamsOptStringArray ==
    [Flags |-> <<>>, Replace |-> <<>>, ReceivedFrom |-> <<>>, SDES |-> <<>>]

\* &RequestRtp{Command: c}: the three embedded pointers nil;
\* marshals is whether bencode.Marshal accepts the value
CommandOnly(c, marshals) ==
    [Command |-> c, ParamsOptString |-> Nil, ParamsOptInt |-> Nil,
     ParamsOptStringArray |-> Nil, marshals |-> marshals]

\* the requests handed to NewComando in the exchange
Requests == {CommandOnly(c, m) : c \in {sPing, sOffer}, m \in BOOLEAN}

\* one struct field with the names its tag gives it: json and bencode
Tag(struct, field, json, bencode) ==
    [struct |-> struct, field |-> field, json |-> json, bencode |-> bencode]

\* the struct tags of the fields of the request aggregates and of the Response
WireNames ==
    {Tag("RequestRtp", "Command", sCommand, sCommand),
     Tag("ParamsOptString", "FromTag", sFromTag, sFromTag),
     Tag("ParamsOptString", "ToTag", sToTag, sToTag),
     Tag("ParamsOptString", "CallId", sCallId, sCallId),
     Tag("ParamsOptString", "TransportProtocol", sTransportProtocol, sTransportProtocol),
     Tag("ParamsOptString", "MediaAddress", sMediaAddress, sMediaAddress),
     Tag("ParamsOptString", "ICE", sICE, sICE),
     Tag("ParamsOptString", "ViaBranch", sViaBranch, sViaBranch),
     Tag("ParamsOptString", "Sdp", sSdp, sSdp),
     Tag("ParamsOptString", "RecordCall", sRecordCall, sRecordCall),
     Tag("ParamsOptInt", "Ptime", sPtime, sPtime),
     Tag("ParamsOptInt", "PtimeReverse", sPtimeReverse, sPtimeReverse),
     Tag("ParamsOptInt", "StartPos", sStartPos, sRStartPos),
     Tag("ParamsOptStringArray", "Flags", sFlags, sFlags),
     Tag("ParamsOptStringArray", "SDES", sSDES, sSDES),
     Tag("ParamsOptStringArray", "ReceivedFrom", sReceivedFrom, sReceivedFrom),
     Tag("ParamsOptStringArray", "Replace", sReplace, sReplace),
     Tag("ResponseRtp", "Result", sResult, sResult),
     Tag("ResponseRtp", "Sdp", sSdp, sSdp),
     Tag("ResponseRtp", "ErrorReason", sErrorReason, sErrorReason),
     Tag("ResponseRtp", "Warning", sWarning, sWarning),
     Tag("ResponseRtp", "FromTag", sFromTag, sFromTag),
     Tag("ResponseRtp", "ToTag", sToTag, sToTag),
     Tag("ResponseRtp", "Totals", <<"t","o","t","a","l","s">>, <<"t","o","t","a","l","s">>),
     Tag("TotalRTP", "Rtp", <<"R","T","P">>, <<"R","T","P">>),
     Tag("TotalRTP", "Rtcp", <<"R","C","T","P">>, <<"R","T","P">>)}

\* bencode.Marshal names a field by its bencode tag
EncoderKey(t) == t.bencode

\* mapstructure with TagName "json" names a field by its json tag
DecoderKey(t) == t.json

----------------------------------------------------------------------------
(* EncodeComando *)

RECURSIVE Decimal(_)
\* the decimal digits of a natural number
Decimal(n) == IF n < 10 THEN <<Digits[n + 1]>> ELSE Decimal(n \div 10) \o <<Digits[(n % 10) + 1]>>

\* bencode of a byte string: <length>:<bytes>
BencodeString(s) == Decimal(Len(s)) \o <<":">> \o s

\* bencode of an integer: i<digits>e
BencodeInt(n) ==
    <<"i">> \o (IF n < 0 THEN <<"-">> \o Decimal(0 - n) ELSE Decimal(n)) \o <<"e">>

RECURSIVE BencodeItems(_)
BencodeItems(l) == IF l = <<>> THEN <<>> ELSE BencodeString(Head(l)) \o BencodeItems(Tail(l))

\* bencode of a slice of strings: l<items>e
BencodeList(l) == <<"l">> \o BencodeItems(l) \o <<"e">>

\* a field tagged omitempty: no key when the value is the type's zero value
\* ("" for a string, 0 for an int, length 0 for a slice)
StringField(key, v) == IF v = <<>> THEN <<>> ELSE BencodeString(key) \o BencodeString(v)

IntField(key, n) == IF n = 0 THEN <<>> ELSE BencodeString(key) \o BencodeInt(n)

\* a slice field that is written whatever its length
MutListFieldAlways(key, l) == BencodeString(key) \o BencodeList(l)

ListField(key, l) == IF Len(l) = 0 THEN <<>> ELSE BencodeString(key) \o BencodeList(l)

\* Marshal leaving the command out when an embedded pointer is nil
MutMarshalNeedsParams(command) ==
    [err |-> ~command.marshals,
     data |-> IF command.ParamsOptString = Nil THEN <<"d","e">>
              ELSE <<"d">> \o BencodeString(sCommand) \o BencodeString(command.Command) \o <<"e">>]

\* bencode.Marshal(command): one dictionary of the fields of the struct and of its
\* embedded structs, keys in byte order; the fields of a nil embedded pointer are
\* skipped, "command" has no omitempty and is always written
Marshal(command) ==
    LET S == command.ParamsOptString
        I == command.ParamsOptInt
        A == command.ParamsOptStringArray
        str(key, f) == IF S = Nil THEN <<>> ELSE StringField(key, S[f])
        int(key, f) == IF I = Nil THEN <<>> ELSE IntField(key, I[f])
        list(key, f) == IF A = Nil THEN <<>> ELSE ListField(key, A[f])
    IN  [err |-> ~command.marshals,
         data |-> <<"d">>
                  \o str(sICE, "ICE")
                  \o list(sSDES, "SDES")
                  \o str(sCallId, "CallId")
                  \o BencodeString(sCommand) \o BencodeString(command.Command)
                  \o list(sFlags, "Flags")
                  \o str(sFromTag, "FromTag")
                  \o str(sMediaAddress, "MediaAddress")
                  \o int(sPtime, "Ptime")
                  \o int(sPtimeReverse, "PtimeReverse")
                  \o list(sReceivedFrom, "ReceivedFrom")
                  \o str(sRecordCall, "RecordCall")
                  \o list(sReplace, "Replace")
                  \o int(sRStartPos, "StartPos")
                  \o str(sSdp, "Sdp")
                  \o str(sToTag, "ToTag")
                  \o str(sTransportProtocol, "TransportProtocol")
                  \o str(sViaBranch, "ViaBranch")
                  \o <<"e">>]

\* EncodeComando joining the cookie and the dictionary without the space
MutEncodeComandoNoSpace(cookie, command) ==
    LET m == Marshal(command)
    IN  IF m.err THEN [err |-> TRUE, data |-> <<>>]
        ELSE [err |-> FALSE, data |-> cookie \o m.data]

EncodeComando(cookie, command) ==
    LET m == Marshal(command)
    IN  IF m.err THEN [err |-> TRUE, data |-> <<>>]
        ELSE [err |-> FALSE, data |-> (cookie \o <<SP>>) \o m.data]

----------------------------------------------------------------------------
(* The request builders and their options (ng_protocol.go) *)

MaxOptions == 2     \* longest option list handed to a builder

\* An option is a record [op, str, list, n], its argument in the field of its type
\* and the other two empty; applying it to the request s gives the request
\* after it and its error.  An option reaches its field through the embedded pointer
\* of the field's aggregate, and faults when that pointer is nil.
Applied(s) == [s |-> s, err |-> "nil"]

\* s.<field> = v on the promoted field of the embedded *ParamsOptString
SetStringField(s, f, v) ==
    IF s.ParamsOptString = Nil THEN [s |-> s, err |-> "panic"]
    ELSE Applied([s EXCEPT !.ParamsOptString = [@ EXCEPT ![f] = v]])

\* s.<field> = v on the promoted field of the embedded *ParamsOptInt
SetIntField(s, f, v) ==
    IF s.ParamsOptInt = Nil THEN [s |-> s, err |-> "panic"]
    ELSE Applied([s EXCEPT !.ParamsOptInt = [@ EXCEPT ![f] = v]])

\* s.<field> = v on the field of the embedded *ParamsOptStringArray
SetListField(s, f, v) ==
    IF s.ParamsOptStringArray = Nil THEN [s |-> s, err |-> "panic"]
    ELSE Applied([s EXCEPT !.ParamsOptStringArray = [@ EXCEPT ![f] = v]])

\* s.ParamsOptStringArray.Flags = append(s.ParamsOptStringArray.Flags, flags...)
SetFlags(flags, s) ==
    IF s.ParamsOptStringArray = Nil THEN [s |-> s, err |-> "panic"]
    ELSE SetListField(s, "Flags", s.ParamsOptStringArray.Flags \o flags)

\* an assignment that keeps a value already there
MutSetTransportProtocol(proto, s) ==
    IF s.ParamsOptString # Nil /\ s.ParamsOptString.TransportProtocol # <<>> THEN Applied(s)
    ELSE SetStringField(s, "TransportProtocol", proto)

SetTransportProtocol(proto, s) == SetStringField(s, "TransportProtocol", proto)

RECURSIVE Tokens(_, _)
\* for _, o := range list { tokens = append(tokens, prefix+o) } on tokens := make(..., 0)
Tokens(prefix, list) ==
    IF list = <<>> THEN <<>> ELSE <<prefix \o Head(list)>> \o Tokens(prefix, Tail(list))

\* s.ParamsOptStringArray.<field> = append(s.ParamsOptStringArray.<field>, tokens...)
AppendList(s, f, tokens) ==
    IF s.ParamsOptStringArray = Nil THEN [s |-> s, err |-> "panic"]
    ELSE SetListField(s, f, s.ParamsOptStringArray[f] \o tokens)

\* the flags of the codecs put in place of the list
MutSetCodecEncoderReplace(codecs, s) ==
    SetListField(s, "Flags",
                 Tokens(<<"c","o","d","e","c","-","t","r","a","n","s","c","o","d","e","-">>, codecs))

SetCodecEncoder(codecs, s) ==
    AppendList(s, "Flags",
               Tokens(<<"c","o","d","e","c","-","t","r","a","n","s","c","o","d","e","-">>, codecs))

SetCodecMask(codecs, s) ==
    AppendList(s, "Flags", Tokens(<<"c","o","d","e","c","-","m","a","s","k","-">>, codecs))

SetCodecStrip(codecs, s) ==
    AppendList(s, "Flags", Tokens(<<"c","o","d","e","c","-","s","t","r","i","p","-">>, codecs))

SetCodecExcept(codecs, s) ==
    AppendList(s, "Flags", Tokens(<<"c","o","d","e","c","-","e","x","c","e","p","t","-">>, codecs))

\* sdes := make([]SDES, 0); sdes = append(sdes, SDESOff); append to the SDES list
DisablesSDES(s) == AppendList(s, "SDES", <<SDESOff>>)

DeleteSDES(cript, s) == AppendList(s, "SDES", Tokens(<<"n","o","-">>, cript))

EnableSDES(cript, s) == AppendList(s, "SDES", Tokens(<<"o","n","l","y","-">>, cript))

SetReplace(replace, s) == SetListField(s, "Replace", replace)

ICERemove(s) == SetStringField(s, "ICE", <<"r","e","m","o","v","e">>)

ICEForce(s) == SetStringField(s, "ICE", <<"f","o","r","c","e">>)

SetViaBranchTag(branch, s) == SetStringField(s, "ViaBranch", branch)

SetPtimeCodecOffer(ptime, s) == SetIntField(s, "Ptime", ptime)

SetPtimeCodecAnswer(ptime, s) == SetIntField(s, "PtimeReverse", ptime)

\* receivedFrom := make([]string, 0); s.ReceivedFrom = append(receivedFrom, family, address)
SetReceivedFrom(addressFamily, Address, s) ==
    SetListField(s, "ReceivedFrom", <<addressFamily, Address>>)

SetMediaAddress(Address, s) == SetStringField(s, "MediaAddress", Address)

RecordYes(s) == SetStringField(s, "RecordCall", <<"y","e","s">>)

RecordNo(s) == SetStringField(s, "RecordCall", <<"n","o">>)

RecordOn(s) == SetStringField(s, "RecordCall", <<"o","n">>)

RecordOff(s) == SetStringField(s, "RecordCall", <<"o","f","f">>)

\* a ParametrosOption written by the caller that changes nothing and returns an error
FailingOption(s) == [s |-> s, err |-> "error"]

\* o(request)
Invoke(o, s) ==
    CASE o.op = "SetFlags" -> SetFlags(o.list, s)
      [] o.op = "SetTransportProtocol" -> SetTransportProtocol(o.str, s)
      [] o.op = "SetReplace" -> SetReplace(o.list, s)
      [] o.op = "ICERemove" -> ICERemove(s)
      [] o.op = "ICEForce" -> ICEForce(s)
      [] o.op = "SetViaBranchTag" -> SetViaBranchTag(o.str, s)
      [] o.op = "SetPtimeCodecOffer" -> SetPtimeCodecOffer(o.n, s)
      [] o.op = "SetPtimeCodecAnswer" -> SetPtimeCodecAnswer(o.n, s)
      [] o.op = "SetReceivedFrom" -> SetReceivedFrom(o.list[1], o.list[2], s)
      [] o.op = "SetMediaAddress" -> SetMediaAddress(o.str, s)
      [] o.op = "RecordYes" -> RecordYes(s)
      [] o.op = "RecordNo" -> RecordNo(s)
      [] o.op = "RecordOn" -> RecordOn(s)
      [] o.op = "RecordOff" -> RecordOff(s)
      [] o.op = "SetCodecEncoder" -> SetCodecEncoder(o.list, s)
      [] o.op = "SetCodecMask" -> SetCodecMask(o.list, s)
      [] o.op = "SetCodecStrip" -> SetCodecStrip(o.list, s)
      [] o.op = "SetCodecExcept" -> SetCodecExcept(o.list, s)
      [] o.op = "DisablesSDES" -> DisablesSDES(s)
      [] o.op = "DeleteSDES" -> DeleteSDES(o.list, s)
      [] o.op = "EnableSDES" -> EnableSDES(o.list, s)
      [] OTHER -> FailingOption(s)

\* a request whose integer aggregate is left nil
MutNewRequestNilInt(command, parametros) ==
    [Command |-> command, ParamsOptString |-> parametros, ParamsOptInt |-> Nil,
     ParamsOptStringArray |-> EmptyParamsOptStringArray, marshals |-> TRUE]

\* request := &RequestRtp{Command: ..., ParamsOptString: parametros,
\*                        ParamsOptInt: &ParamsOptInt{}, ParamsOptStringArray: &ParamsOptStringArray{}}
NewRequest(command, parametros) ==
    [Command |-> command, ParamsOptString |-> parametros, ParamsOptInt |-> EmptyParamsOptInt,
     ParamsOptStringArray |-> EmptyParamsOptStringArray, marshals |-> TRUE]

RECURSIVE MutApplyAllOptions(_, _, _, _)
\* the loop running every option and returning the first error at its end
MutApplyAllOptions(s, options, k, err) ==
    IF k > Len(options)
    THEN [request |-> IF err = "nil" THEN s ELSE Nil, err |-> err, invoked |-> k - 1, last |-> s]
    ELSE LET r == Invoke(options[k], s)
         IN  IF r.err = "panic" THEN [request |-> Nil, err |-> "panic", invoked |-> k, last |-> r.s]
             ELSE MutApplyAllOptions(r.s, options, k + 1, IF err = "nil" THEN r.err ELSE err)

\* the loop started with another error than nil
MutApplyOptionsAll(s, options, k) == MutApplyAllOptions(s, options, k, "nil")

RECURSIVE ApplyOptions(_, _, _)
\* for _, o := range options { if err := o(request); err != nil { return nil, err } }
\* return request, nil
\* from option k on; invoked counts the options called, last is the request object
\* as the loop left it
ApplyOptions(s, options, k) ==
    IF k > Len(options) THEN [request |-> s, err |-> "nil", invoked |-> k - 1, last |-> s]
    ELSE LET r == Invoke(options[k], s)
         IN  IF r.err # "nil" THEN [request |-> Nil, err |-> r.err, invoked |-> k, last |-> r.s]
             ELSE ApplyOptions(r.s, options, k + 1)

SDPOffering(parametros, options) == ApplyOptions(NewRequest(sOffer, parametros), options, 1)

SDPAnswer(parametros, options) == ApplyOptions(NewRequest(sAnswer, parametros), options, 1)

SDPDelete(parametros, options) == ApplyOptions(NewRequest(sDelete, parametros), options, 1)

\* the builders, and the command each is for
BuilderCommand == [SDPOffering |-> sOffer, SDPAnswer |-> sAnswer, SDPDelete |-> sDelete]

\* a request holding its own copy of the caller's record
MutCopiedParams(request, record) == request

\* ParamsOptString: parametros stores the caller's pointer: the request shows the
\* record as it is now, whoever wrote to it
SharedParams(request, record) == [request EXCEPT !.ParamsOptString = record]

\* no builder called
NoRequest == [op |-> "none", builder |-> "none", parametros |-> Nil, options |-> <<>>,
              initial |-> Nil,
              request |-> Nil, err |-> "nil", invoked |-> 0,
              second |-> Nil, options2 |-> <<>>, err2 |-> "nil",
              cookie |-> <<>>, data |-> <<>>, encErr |-> FALSE, resp |-> Nil]

----------------------------------------------------------------------------
(* The client, its connection and the proxy *)

\* the NewComando calls made on the client, each by some goroutine; two calls may
\* overlap or follow one another
Callers == {"g1", "g2"}

\* one cookie handed to every call
MutGetCookieFixed(n) == <<"c", "0">>

\* uuid.NewString(): the n-th cookie drawn; all cookies have one length and no
\* two draws give the same cookie
GetCookie(n) == <<"c", Digits[n + 1]>>

\* a time.Duration of n nanoseconds, kept as whole seconds and the rest
Duration(n) == [secs |-> n \div Second, nanos |-> n % Second]

\* time.Duration(time.Duration(t).Milliseconds()): t nanoseconds, in whole
\* milliseconds, taken as a number of nanoseconds
WithClientTimeout(t) == Duration(t \div Millisecond)

\* a call not yet made: err is ComandoNG's error, rerr the Read's, raw the buffer
\* given to DecodeResposta, late whether the read deadline had passed at the start,
\* answered whether the answer to its request was next in the queue at its Read
IdleCall == [pc |-> "idle", cookie |-> <<>>, resposta |-> Nil, err |-> "nil", rerr |-> "nil",
             raw |-> <<>>, nWrites |-> 0, nReads |-> 0, wake |-> 0, late |-> FALSE,
             answered |-> FALSE]

\* a net.IP: nil, or the address a text denotes
NilIP == [valid |-> FALSE, text |-> ""]

\* the texts that denote an IP address
IPTexts == {"10.0.0.1", "10.0.0.2", "10.0.0.3"}

\* net.ParseIP: the address of a valid text, nil for any other
ParseIP(host) == IF host \in IPTexts THEN [valid |-> TRUE, text |-> host] ELSE NilIP

\* net.IP.String(): "<nil>" for the nil address
IPString(ip) == IF ip.valid THEN ip.text ELSE "<nil>"

\* the zero Engine
ZeroEngine == [ip |-> NilIP, port |-> 0, proto |-> ""]

\* a client option, with uniformly typed arguments
ClientOpt(op, str, n) == [op |-> op, str |-> str, n |-> n]

WithClientPort(port, c) == [c EXCEPT !.port = port, !.Engine.port = port]

WithClientIP(host, c) == [c EXCEPT !.Engine.ip = ParseIP(host)]

WithClientProto(proto, c) == [c EXCEPT !.Engine.proto = proto]

\* the option as it is applied to the client under construction
ApplyClientOption(o, c) ==
    CASE o.op = "WithClientPort" -> WithClientPort(o.n, c)
      [] o.op = "WithClientIP" -> WithClientIP(o.str, c)
      [] o.op = "WithClientProto" -> WithClientProto(o.str, c)
      [] o.op = "WithClientTimeout" -> [c EXCEPT !.timeout = WithClientTimeout(o.n)]

RECURSIVE ApplyClientOptions(_, _, _)
\* for _, o := range options { o(c) }: no option of the model returns an error
ApplyClientOptions(c, options, k) ==
    IF k > Len(options) THEN c ELSE ApplyClientOptions(ApplyClientOption(options[k], c), options, k + 1)

\* if c.url != "" && c.url != "<nil>" { c.ip = net.ParseIP(c.url) }
ConfiguredIP(c) ==
    IF c.url # "" /\ c.url # "<nil>" THEN [c EXCEPT !.Engine.ip = ParseIP(c.url)] ELSE c

\* the client NewClient has configured when it dials
Configured(rtpengine, options) ==
    ConfiguredIP(ApplyClientOptions([Engine |-> rtpengine,
                                     url |-> IPString(rtpengine.ip),
                                     port |-> rtpengine.port,
                                     timeout |-> [secs |-> DefaultTimeoutSecs, nanos |-> 0]],
                                    options, 1))

NoClient == [state |-> "none", con |-> "nil", conUDP |-> "nil", proto |-> "",
             timeout |-> Duration(0), deadline |-> 0, fault |-> "none",
             ip |-> NilIP, port |-> 0, url |-> "", rtpengine |-> ZeroEngine, options |-> <<>>]

NoCodec == [op |-> "none", cookie |-> <<>>, raw |-> <<>>, resp |-> EmptyResponse]

Init ==
    /\ client = NoClient
    /\ now = 0
    /\ inbox = <<>>
    /\ sent = {}
    /\ calls = [g \in Callers |-> IdleCall]
    /\ ncalls = 0
    /\ codec = NoCodec
    /\ req = NoRequest

\* the process runs: NewClient has returned a client and no goroutine has panicked
Running == client.state \in {"ready", "failed"} /\ client.fault = "none"

\* NewClient(rtpengine, options...): the defaults, the options, then ConnUDP for
\* proto "udp" and Conn otherwise.  A failed dial returns the client with the error
\* and stores no handle; a successful one stores the handle with its read deadline.
\* The Engine's zero proto "" names no network, so its dial fails.
\* The address dialled is the Engine's ip and port at that moment; rtpengine and
\* options keep the arguments of the call.
NewClient(rtpengine, options, dialOk) ==
    /\ client.state = "none"
    /\ now + DeadlineSecs <= MaxTime
    /\ LET c == Configured(rtpengine, options)
           proto == c.Engine.proto
       IN  /\ proto = "" => ~dialOk
           /\ client' = [client EXCEPT
                    !.state = IF dialOk THEN "ready" ELSE "failed",
                    !.proto = proto,
                    !.timeout = c.timeout,
                    !.ip = c.Engine.ip,
                    !.port = c.Engine.port,
                    !.url = c.url,
                    !.rtpengine = rtpengine,
                    !.options = options,
                    !.conUDP = IF dialOk /\ proto = "udp" THEN "open" ELSE "nil",
                    !.con = IF dialOk /\ proto # "udp" THEN "open" ELSE "nil",
                    !.deadline = IF dialOk THEN now + DeadlineSecs ELSE 0]
    /\ UNCHANGED <<now, inbox, sent, calls, ncalls, codec, req>>

\* the option lists of the clients that make exchanges: the protocol, or none
ExchangeOptions ==
    {<<>>, <<ClientOpt("WithClientProto", "udp", 0)>>, <<ClientOpt("WithClientProto", "tcp", 0)>>}

\* the handle ComandoNG, RespostaNG and Close use: conUDP when set, con otherwise
Handle == IF client.conUDP # "nil" THEN client.conUDP ELSE client.con

\* time passes while a call can still observe it
Tick ==
    /\ Running
    /\ now < MaxTime
    /\ \E g \in Callers : calls[g].pc \in {"idle", "sleep"}
    /\ now' = now + 1
    /\ UNCHANGED <<client, inbox, sent, calls, ncalls, codec, req>>

\* an error-shaped Response in place of the empty one
MutComandoFailError == [EmptyResponse EXCEPT !.Result = sError, !.ErrorReason = <<"w","r","i","t","e">>]

\* no Response at all in place of the empty one
MutComandoFailNil == Nil

\* resposta := &ResponseRtp{}, returned when ComandoNG fails
ComandoFailResposta == EmptyResponse

\* NewComando going on to RespostaNG whatever ComandoNG returned
MutAfterComandoNG(err) == "sleep"

\* NewComando after ComandoNG: an error returns at once, otherwise RespostaNG runs
AfterComandoNG(err) == IF err # "nil" THEN "done" ELSE "sleep"

\* the error of the one Write of ComandoNG on an existing handle
WriteError(wok) == IF Handle = "closed" THEN "closed" ELSE IF ~wok THEN "write" ELSE "nil"

\* NewComando up to the end of ComandoNG: GetCookie, EncodeComando, one Write on the
\* handle (a nil handle faults).  wok is whether the channel accepts the write.
NewComando(g, comando, wok) ==
    /\ Running
    /\ calls[g].pc = "idle"
    /\ now + SleepSecs <= MaxTime
    /\ LET cookie == GetCookie(ncalls)
           menssagem == EncodeComando(cookie, comando)
           call == [IdleCall EXCEPT !.cookie = cookie,
                                    !.late = (Handle = "open" /\ now >= client.deadline)]
       IN  /\ ncalls' = ncalls + 1
           /\ IF menssagem.err
              THEN /\ calls' = [calls EXCEPT ![g] =
                                  [call EXCEPT !.pc = AfterComandoNG("encode"), !.err = "encode",
                                               !.resposta = ComandoFailResposta]]
                   /\ UNCHANGED <<client, sent>>
              ELSE IF Handle = "nil"
              THEN /\ calls' = [calls EXCEPT ![g] = [call EXCEPT !.pc = "panic"]]
                   /\ client' = [client EXCEPT !.fault = "NewComando"]
                   /\ UNCHANGED sent
              ELSE LET err == WriteError(wok)
                   IN  /\ calls' = [calls EXCEPT ![g] =
                                      [call EXCEPT !.pc = AfterComandoNG(err), !.err = err,
                                                   !.nWrites = @ + 1,
                                                   !.resposta = IF err # "nil" THEN ComandoFailResposta
                                                                ELSE Nil,
                                                   !.wake = IF err = "nil" THEN now + SleepSecs
                                                            ELSE 0]]
                       /\ sent' = IF err = "nil"
                                  THEN sent \cup {SliceTo(menssagem.data, IndexAny(menssagem.data, {SP}))}
                                  ELSE sent
                       /\ UNCHANGED client
    /\ UNCHANGED <<now, inbox, codec, req>>

\* make([]byte, 65536) after the Read: the datagram followed by zero bytes
Pad(d) == d \o [k \in 1..PadLen |-> NUL]

\* return nil, err
MutReadFailNil == Nil

\* resposta := &ResponseRtp{}, returned with the error when the Read fails
ReadFailResposta == EmptyResponse

\* a handle on which no read deadline was set
MutNoDeadline == FALSE

\* SetReadDeadline(time.Now().Add(10 * time.Second)) at the dial: a Read at or after
\* that instant fails with a timeout
ReadDeadlineReached == now >= client.deadline

\* the error of the one Read of RespostaNG; rok is whether the channel reports none
ReadError(rok) ==
    IF Handle = "closed" THEN "closed"
    ELSE IF ReadDeadlineReached THEN "timeout"
    ELSE IF ~rok THEN "read"
    ELSE "nil"

\* the cookie taken from the response itself
MutExpectedCookie(g, respostaRaw) ==
    IF IndexAny(respostaRaw, {SP}) < 0 THEN calls[g].cookie
    ELSE SliceTo(respostaRaw, IndexAny(respostaRaw, {SP}))

\* the cookie RespostaNG hands to DecodeResposta: the one NewComando drew
ExpectedCookie(g, respostaRaw) == calls[g].cookie

\* The rest of NewComando: RespostaNG once its Sleep is over, i.e. one Read and,
\* when the Read gives bytes, DecodeResposta.  Without an error the Read waits
\* until a datagram is queued.
RespostaNG(g, rok) ==
    /\ client.fault = "none"
    /\ calls[g].pc = "sleep"
    /\ now >= calls[g].wake
    /\ LET rerr == ReadError(rok)
           answered == /\ inbox # <<>>
                       /\ Len(Head(inbox)) > Len(calls[g].cookie)
                       /\ SliceTo(Head(inbox), Len(calls[g].cookie) + 1) = calls[g].cookie \o <<SP>>
       IN  IF rerr # "nil"
           THEN /\ calls' = [calls EXCEPT ![g].pc = "done", ![g].nReads = @ + 1, ![g].wake = 0,
                                           ![g].rerr = rerr, ![g].resposta = ReadFailResposta,
                                           ![g].answered = answered]
                /\ UNCHANGED inbox
           ELSE /\ inbox # <<>>
                /\ LET respostaRaw == Pad(Head(inbox))
                   IN  calls' = [calls EXCEPT
                                   ![g].pc = "done", ![g].nReads = @ + 1, ![g].wake = 0,
                                   ![g].raw = respostaRaw, ![g].answered = answered,
                                   ![g].resposta = DecodeResposta(ExpectedCookie(g, respostaRaw),
                                                                  respostaRaw)]
                /\ inbox' = Tail(inbox)
    /\ UNCHANGED <<client, now, sent, ncalls, codec, req>>

\* Close(): closes conUDP when set and con otherwise; a nil con faults
Close ==
    /\ Running
    /\ IF client.conUDP # "nil" THEN client' = [client EXCEPT !.conUDP = "closed"]
       ELSE IF client.con # "nil" THEN client' = [client EXCEPT !.con = "closed"]
       ELSE client' = [client EXCEPT !.fault = "Close"]
    /\ UNCHANGED <<now, inbox, sent, calls, ncalls, codec, req>>

pPong == <<"d","6",":","r","e","s","u","l","t","4",":","p","o","n","g","e">>
pOkSdp == <<"d","6",":","r","e","s","u","l","t","2",":","o","k","3",":","s","d","p","3",":","v","=","0","e">>
pNotBencode == <<"x","y">>
pNoResult == <<"d","3",":","s","d","p","3",":","v","=","0","e">>
pUnknownResult == <<"d","6",":","r","e","s","u","l","t","3",":","f","o","o","e">>
pErrorNoReason == <<"d","6",":","r","e","s","u","l","t","5",":","e","r","r","o","r","e">>
pErrorFoo == <<"d","1","2",":","e","r","r","o","r","-","r","e","a","s","o","n","3",":","f","o","o","6",":","r","e","s","u","l","t","5",":","e","r","r","o","r","e">>

\* a datagram that carries no cookie and no space
dNoFrame == <<"z","z">>

\* the datagrams the proxy may send in answer to the request with this cookie:
\* the cookie, a space and a payload, or bytes without that framing
Answers(cookie) == {(cookie \o <<SP>>) \o pPong, (cookie \o <<SP>>) \o pOkSdp,
                    (cookie \o <<SP>>) \o pErrorNoReason,
                    (cookie \o <<SP>>) \o pNotBencode, dNoFrame}

\* the proxy answers a request it has received; the answer is queued at the socket
ProxyRespond(cookie, d) ==
    /\ Running
    /\ cookie \in sent
    /\ d \in Answers(cookie)
    /\ inbox' = Append(inbox, d)
    /\ sent' = sent \ {cookie}
    /\ UNCHANGED <<client, now, calls, ncalls, codec, req>>

Next ==
    \/ \E options \in ExchangeOptions, dialOk \in BOOLEAN :
          NewClient(ZeroEngine, options, dialOk)
    \/ Tick
    \/ \E g \in Callers, comando \in Requests, wok \in BOOLEAN : NewComando(g, comando, wok)
    \/ \E g \in Callers, rok \in BOOLEAN : RespostaNG(g, rok)
    \/ Close
    \/ \E cookie \in sent : \E d \in Answers(cookie) : ProxyRespond(cookie, d)

Spec == Init /\ [][Next]_vars

----------------------------------------------------------------------------
(* The exchange when the proxy stays silent *)

NextSilent ==
    \/ \E options \in ExchangeOptions, dialOk \in BOOLEAN :
          NewClient(ZeroEngine, options, dialOk)
    \/ Tick
    \/ \E g \in Callers, comando \in Requests, wok \in BOOLEAN : NewComando(g, comando, wok)
    \/ \E g \in Callers, rok \in BOOLEAN : RespostaNG(g, rok)
    \/ Close

\* The clock advances, and a call whose Read can return without a channel error
\* does return: the runtime wakes a sleeping or blocked goroutine.
FairSilent ==
    /\ Init
    /\ [][NextSilent]_vars
    /\ WF_vars(Tick)
    /\ \A g \in Callers : WF_vars(RespostaNG(g, TRUE))

----------------------------------------------------------------------------
(* Direct calls of the codec *)

\* all byte strings over an alphabet up to a length
Strings(alphabet, n) == UNION {[1..k -> alphabet] : k \in 0..n}

CodecCookies == Strings({"a", "d", SP}, MaxCookieLen) \cup {GetCookie(0), GetCookie(1)}

CodecRaws ==
    Strings({"a", SP, "d", "e"}, MaxRawLen)
    \cup {(c \o <<SP>>) \o p : c \in {GetCookie(0), <<"c">>, <<"c","0","0">>},
                                p \in {pPong, pOkSdp, pNotBencode, pNoResult, pUnknownResult,
                                       pErrorNoReason, pErrorFoo}}

InitCodec ==
    /\ client = NoClient
    /\ now = 0
    /\ inbox = <<>>
    /\ sent = {}
    /\ calls = [g \in Callers |-> IdleCall]
    /\ ncalls = 0
    /\ codec \in [op : {"decode"}, cookie : CodecCookies, raw : CodecRaws, resp : {EmptyResponse}]
    /\ req = NoRequest

\* a caller runs DecodeResposta(cookie, raw)
DecodeCall ==
    /\ codec.op = "decode"
    /\ codec' = [codec EXCEPT !.op = "decoded", !.resp = DecodeResposta(codec.cookie, codec.raw)]
    /\ UNCHANGED <<client, now, inbox, sent, calls, ncalls, req>>

NextCodec == DecodeCall

SpecCodec == InitCodec /\ [][NextCodec]_vars

----------------------------------------------------------------------------
(* Building a request, encoding it and decoding the bytes back *)

\* &ParamsOptString{FromTag: ..., ToTag: ..., CallId: ...}
TagsOnly == [EmptyParamsOptString EXCEPT !.FromTag = <<"f","1">>, !.ToTag = <<"t","1">>,
                                         !.CallId = <<"i","d">>]

\* the *ParamsOptString a caller hands over: nil, the three tags, the tags and an sdp
Parametros == {Nil, TagsOnly, [TagsOnly EXCEPT !.Sdp = <<"v","=","0">>]}

\* an option without argument, with a string, with a list, with an integer
Opt(op) == [op |-> op, str |-> <<>>, list |-> <<>>, n |-> 0]

OptStr(op, str) == [op |-> op, str |-> str, list |-> <<>>, n |-> 0]

OptList(op, list) == [op |-> op, str |-> <<>>, list |-> list, n |-> 0]

OptInt(op, n) == [op |-> op, str |-> <<>>, list |-> <<>>, n |-> n]

\* the options a caller may list, the last one written by the caller itself
Options ==
    {OptStr("SetTransportProtocol", RTP_AVP), OptStr("SetTransportProtocol", RTP_SAVP),
     Opt("ICERemove"), Opt("ICEForce"),
     Opt("RecordYes"), Opt("RecordNo"), Opt("RecordOn"), Opt("RecordOff"),
     OptStr("SetViaBranchTag", <<"z","9">>), OptStr("SetMediaAddress", <<"m","1">>),
     OptInt("SetPtimeCodecOffer", 0), OptInt("SetPtimeCodecOffer", 20),
     OptInt("SetPtimeCodecAnswer", 0), OptInt("SetPtimeCodecAnswer", 30),
     OptList("SetFlags", <<TrustAddress, Symmetric>>), OptList("SetFlags", <<>>),
     OptList("SetReplace", <<Origin>>),
     OptList("SetReceivedFrom", <<AddressFamilyIP4, <<"m","1">>>>),
     Opt("Failing")}

OptionLists == UNION {[1..k -> Options] : k \in 0..MaxOptions}

\* the cookies of the direct EncodeComando calls: a drawn one and a caller's own
BuildCookies == {GetCookie(0), <<"k">>}

InitBuild ==
    /\ client = NoClient
    /\ now = 0
    /\ inbox = <<>>
    /\ sent = {}
    /\ calls = [g \in Callers |-> IdleCall]
    /\ ncalls = 0
    /\ codec = NoCodec
    /\ req \in {[NoRequest EXCEPT !.op = "new", !.parametros = p, !.options = o] :
                   p \in Parametros, o \in OptionLists}

\* what a builder call leaves: the request or the error it returned, and the
\* caller's *ParamsOptString as the options left it (the request points to it)
Built(builder, r, initial) ==
    req' = [req EXCEPT !.op = IF r.err = "panic" THEN "panic" ELSE "built",
                       !.builder = builder,
                       !.initial = initial,
                       !.request = r.request,
                       !.err = r.err,
                       !.invoked = r.invoked,
                       !.parametros = r.last.ParamsOptString]

CallSDPOffering ==
    /\ req.op = "new"
    /\ Built("SDPOffering", SDPOffering(req.parametros, req.options), SDPOffering(req.parametros, <<>>).request)
    /\ UNCHANGED <<client, now, inbox, sent, calls, ncalls, codec>>

CallSDPAnswer ==
    /\ req.op = "new"
    /\ Built("SDPAnswer", SDPAnswer(req.parametros, req.options), SDPAnswer(req.parametros, <<>>).request)
    /\ UNCHANGED <<client, now, inbox, sent, calls, ncalls, codec>>

CallSDPDelete ==
    /\ req.op = "new"
    /\ Built("SDPDelete", SDPDelete(req.parametros, req.options), SDPDelete(req.parametros, <<>>).request)
    /\ UNCHANGED <<client, now, inbox, sent, calls, ncalls, codec>>

\* a request written as a struct literal, without a builder:
\* &RequestRtp{Command: c} or &RequestRtp{Command: c, ParamsOptString: parametros},
\* with ParamsOptInt: &ParamsOptInt{StartPos: startPos} for a start position
Literal(c, startPos) ==
    /\ req.op = "new"
    /\ req.options = <<>>
    /\ req' = [req EXCEPT !.op = "built", !.builder = "literal",
                          !.request = [CommandOnly(c, TRUE) EXCEPT
                                          !.ParamsOptString = req.parametros,
                                          !.ParamsOptInt =
                                              IF startPos = 0 THEN Nil
                                              ELSE [EmptyParamsOptInt EXCEPT !.StartPos = startPos]]]
    /\ UNCHANGED <<client, now, inbox, sent, calls, ncalls, codec>>

\* EncodeComando(cookie, request) on the request a builder returned
EncodeCall(cookie) ==
    /\ req.op = "built"
    /\ req.err = "nil"
    /\ LET menssagem == EncodeComando(cookie, req.request)
       IN  req' = [req EXCEPT !.op = "encoded", !.cookie = cookie,
                              !.data = menssagem.data, !.encErr = menssagem.err]
    /\ UNCHANGED <<client, now, inbox, sent, calls, ncalls, codec>>

\* DecodeResposta(cookie, data) on the bytes EncodeComando gave
DecodeBack ==
    /\ req.op = "encoded"
    /\ ~req.encErr
    /\ req' = [req EXCEPT !.op = "decoded", !.resp = DecodeResposta(req.cookie, req.data)]
    /\ UNCHANGED <<client, now, inbox, sent, calls, ncalls, codec>>

\* the options that build lists, for the builders' option lists of SpecLists
ListOptions ==
    {OptList("SetFlags", <<TrustAddress>>),
     OptList("SetCodecEncoder", <<CODEC_PCMA, CODEC_G729>>),
     OptList("SetCodecMask", <<CODEC_PCMA, CODEC_G729>>),
     OptList("SetCodecStrip", <<CODEC_G729>>),
     OptList("SetCodecExcept", <<>>),
     Opt("DisablesSDES"),
     OptList("DeleteSDES", <<SRTP_AEAD_AES_256_GCM>>),
     OptList("EnableSDES", <<SRTP_AEAD_AES_256_GCM>>),
     OptList("SetReceivedFrom", <<AddressFamilyIP4, <<"m","1">>>>),
     OptList("SetReceivedFrom", <<AddressFamilyIP6, <<"m","2">>>>)}

InitLists ==
    /\ client = NoClient
    /\ now = 0
    /\ inbox = <<>>
    /\ sent = {}
    /\ calls = [g \in Callers |-> IdleCall]
    /\ ncalls = 0
    /\ codec = NoCodec
    /\ req \in {[NoRequest EXCEPT !.op = "new", !.parametros = p, !.options = o] :
                   p \in Parametros, o \in UNION {[1..k -> ListOptions] : k \in 0..MaxOptions}}

NextBuild ==
    \/ CallSDPOffering
    \/ CallSDPAnswer
    \/ CallSDPDelete
    \/ \E c \in {sPing, sDelete}, startPos \in {0, 5} : Literal(c, startPos)
    \/ \E cookie \in BuildCookies : EncodeCall(cookie)
    \/ DecodeBack

SpecBuild == InitBuild /\ [][NextBuild]_vars

\* the options of the two builder calls made on one parameter record
AliasOptions ==
    {OptStr("SetTransportProtocol", RTP_SAVP), Opt("ICERemove"), Opt("RecordYes"),
     OptStr("SetViaBranchTag", <<"z","9">>), OptStr("SetMediaAddress", <<"m","1">>),
     OptInt("SetPtimeCodecOffer", 20), OptList("SetFlags", <<TrustAddress>>),
     OptList("SetCodecMask", <<CODEC_PCMA>>)}

InitAlias ==
    /\ client = NoClient
    /\ now = 0
    /\ inbox = <<>>
    /\ sent = {}
    /\ calls = [g \in Callers |-> IdleCall]
    /\ ncalls = 0
    /\ codec = NoCodec
    /\ req \in {[NoRequest EXCEPT !.op = "new", !.parametros = p, !.options = o] :
                   p \in Parametros, o \in UNION {[1..k -> AliasOptions] : k \in 0..MaxOptions}}

\* a second builder call handed the record of the first: the first request and the
\* caller see what its options write to the record, and keep their own aggregates
SecondCall(builder, option) ==
    /\ req.op = "built"
    /\ req.err = "nil"
    /\ LET options == IF option = Nil THEN <<>> ELSE <<option>>
           r == ApplyOptions(NewRequest(BuilderCommand[builder], req.parametros), options, 1)
       IN  req' = [req EXCEPT !.op = IF r.err = "panic" THEN "panic" ELSE "built2",
                              !.second = r.request,
                              !.options2 = options,
                              !.err2 = r.err,
                              !.parametros = r.last.ParamsOptString,
                              !.request = SharedParams(req.request, r.last.ParamsOptString)]
    /\ UNCHANGED <<client, now, inbox, sent, calls, ncalls, codec>>

NextAlias ==
    \/ CallSDPOffering
    \/ CallSDPAnswer
    \/ CallSDPDelete
    \/ \E builder \in DOMAIN BuilderCommand, option \in AliasOptions \cup {Nil} :
          SecondCall(builder, option)

\* two builder calls on one parameter record
SpecAlias == InitAlias /\ [][NextAlias]_vars

\* the Engines given to NewClient: the zero Engine and one with its ip set
Engines == {ZeroEngine, [ZeroEngine EXCEPT !.ip = ParseIP("10.0.0.1")]}

\* the client options given to NewClient
ClientOptions ==
    {ClientOpt("WithClientPort", "", 2222),
     ClientOpt("WithClientIP", "10.0.0.2", 0),
     ClientOpt("WithClientIP", "10.0.0.3", 0),
     ClientOpt("WithClientProto", "udp", 0),
     ClientOpt("WithClientProto", "tcp", 0),
     ClientOpt("WithClientTimeout", "", 0),
     ClientOpt("WithClientTimeout", "", 5000),
     ClientOpt("WithClientTimeout", "", 1500000)}

ClientOptionLists == UNION {[1..k -> ClientOptions] : k \in 0..MaxOptions}

NextOptions ==
    \/ \E rtpengine \in Engines, options \in ClientOptionLists, dialOk \in BOOLEAN :
          NewClient(rtpengine, options, dialOk)
    \/ Close

\* NewClient called with every Engine and option list, then Close
SpecOptions == Init /\ [][NextOptions]_vars

\* the builders called with lists of list-building options
SpecLists == InitLists /\ [][NextBuild]_vars

----------------------------------------------------------------------------
(* Properties *)

\* an error-shaped Response that carries nothing decoded from a payload
ErrorShaped(r) ==
    /\ r.Result = sError
    /\ r.ErrorReason # <<>>
    /\ r.Sdp = <<>>
    /\ r.Warning = <<>>

\* the first space of raw is at index len(cookie)
Framed(cookie, raw) == IndexAny(raw, {SP}) = Len(cookie)

\* C1: DecodeResposta(cookie, raw) with the first space of raw not at index
\* len(cookie) (no space at all included) returns result "error" with a non-empty
\* error-reason and nothing decoded from the payload.
C1_FrameError ==
    (codec.op = "decoded" /\ ~Framed(codec.cookie, codec.raw)) => ErrorShaped(codec.resp)

\* the cookie of the buffer is an extension of the expected one and its payload
\* is a dictionary with result and sdp
C1_Witness ==
    /\ codec.op = "decoded"
    /\ codec.cookie = GetCookie(0)
    /\ codec.raw = (<<"c","0","0">> \o <<SP>>) \o pOkSdp
    /\ ~Framed(codec.cookie, codec.raw)

\* C2: with the first space at index len(cookie) and other bytes before it than
\* the cookie, DecodeResposta returns result "error" with a non-empty reason that
\* differs from the framing reason, and decodes nothing of the payload.
C2_CookieMismatch ==
    (/\ codec.op = "decoded"
     /\ Framed(codec.cookie, codec.raw)
     /\ SliceTo(codec.raw, Len(codec.cookie)) # codec.cookie)
    => (ErrorShaped(codec.resp) /\ codec.resp.ErrorReason # FrameErrorResponse.ErrorReason)

C2_Witness ==
    /\ codec.op = "decoded"
    /\ codec.cookie = GetCookie(1)
    /\ codec.raw = (GetCookie(0) \o <<SP>>) \o pOkSdp

\* whether the buffer a call read carries that call's cookie before its first space
OwnCookie(g) ==
    /\ Framed(calls[g].cookie, calls[g].raw)
    /\ SliceTo(calls[g].raw, Len(calls[g].cookie)) = calls[g].cookie

\* a call has returned after a Read that gave it bytes
ReadBytes(g) == calls[g].pc = "done" /\ calls[g].nReads = 1 /\ calls[g].rerr = "nil"

\* C3: whatever the interleaving of the calls sharing the connection, a call whose
\* Read obtained bytes not carrying its own cookie returns an error-shaped Response
\* and no payload field: payload fields come only from a response with its cookie.
C3_NoCrossTalk ==
    \A g \in Callers : (ReadBytes(g) /\ ~OwnCookie(g)) => ErrorShaped(calls[g].resposta)

\* a call has read the answer to the other call's request, a decodable one
C3_Witness ==
    \E g, h \in Callers :
        /\ g # h
        /\ ReadBytes(g)
        /\ calls[h].pc \in {"sleep", "done"}
        /\ calls[g].raw = Pad((calls[h].cookie \o <<SP>>) \o pOkSdp)

\* C4: on a client with a connection, NewComando returns a non-nil Response on
\* every path.
C4_NonNil ==
    \A g \in Callers : calls[g].pc = "done" => calls[g].resposta # Nil

\* one call returned after a failed write, another after a decoded answer
C4_Witness ==
    \E g, h \in Callers :
        /\ calls[g].pc = "done" /\ calls[g].err = "write"
        /\ ReadBytes(h) /\ calls[h].resposta.Result = sPong

\* a call has returned after its Write or its Read failed at the channel
TransportFailed(g) ==
    /\ calls[g].pc = "done"
    /\ calls[g].err \in {"write", "closed"} \/ calls[g].rerr \in {"read", "closed", "timeout"}

C6_Claim ==
    (/\ codec.op = "decoded"
     /\ Framed(codec.cookie, codec.raw)
     /\ SliceTo(codec.raw, Len(codec.cookie)) = codec.cookie
     /\ ~AsDict(SliceFrom(codec.raw, Len(codec.cookie) + 1)).ok)
    => (codec.resp.Result = sError /\ codec.resp.ErrorReason # <<>>)

\* C7 as stated: on every client NewClient returns, the one returned with a
\* connection error included, NewComando and Close return and never fault on a
\* missing handle.
C7_Claim == client.fault = "none"

\* a Response that reports success
Success(r) == r # Nil /\ r.Result \in {sOk, sPong}

\* C8: with a silent proxy, every call that has written its request returns, and
\* a call whose Read met neither a closed handle nor a channel error returns by
\* the read deadline, as a timeout and not as a success.
C8_TimeoutReturns ==
    /\ \A g \in Callers : (calls[g].pc = "sleep") ~> (calls[g].pc = "done")
    /\ [](\A g \in Callers :
            (calls[g].pc = "done" /\ calls[g].nReads = 1 /\ calls[g].rerr \notin {"read", "closed"})
            => (/\ calls[g].rerr = "timeout"
                /\ now >= client.deadline
                /\ ~Success(calls[g].resposta)))

\* a call wrote its request before the deadline and returned by the timeout
C8_Witness ==
    \E g \in Callers :
        calls[g].pc = "done" /\ calls[g].rerr = "timeout" /\ ~calls[g].late

\* C9 as stated: the read of an exchange is bounded by the timeout counted from
\* that exchange; an exchange whose answer is there at its Read does not fail for
\* a deadline that had expired before the exchange began.
C9_Claim ==
    \A g \in Callers :
        ~(/\ calls[g].pc = "done"
          /\ calls[g].late
          /\ calls[g].answered
          /\ calls[g].rerr = "timeout")

\* C10: a call makes at most one Write and at most one Read, the Read only after
\* its Write succeeded; after a failed encoding or Write there is no Read.
C10_OneWriteOneRead ==
    \A g \in Callers :
        /\ calls[g].nWrites <= 1
        /\ calls[g].nReads <= 1
        /\ calls[g].nReads = 1 => (calls[g].nWrites = 1 /\ calls[g].err = "nil")
        /\ calls[g].err # "nil" => calls[g].nReads = 0
        /\ calls[g].err = "encode" => calls[g].nWrites = 0

\* one call returned after a failed write without a Read, another after its Read
C10_Witness ==
    \E g, h \in Callers :
        /\ calls[g].pc = "done" /\ calls[g].err = "write" /\ calls[g].nReads = 0
        /\ calls[h].pc = "done" /\ calls[h].nWrites = 1 /\ calls[h].nReads = 1

\* the result tokens the client knows
Recognised == {sOk, sPong, sError}

\* the buffer carries the cookie, a space and a bencoded dictionary
WellFormed(cookie, raw) ==
    /\ Framed(cookie, raw)
    /\ SliceTo(raw, Len(cookie)) = cookie
    /\ AsDict(SliceFrom(raw, Len(cookie) + 1)).ok

\* the dictionary of a well-formed buffer
DictOf(cookie, raw) == AsDict(SliceFrom(raw, Len(cookie) + 1)).v

\* C11 as stated: every Response of DecodeResposta has a non-empty result, and a
\* well-formed response whose dictionary has no "result" string or an unknown
\* result token comes back as result "error" with a non-empty error-reason.
C11_Claim ==
    codec.op = "decoded" =>
        /\ codec.resp.Result # <<>>
        /\ (/\ WellFormed(codec.cookie, codec.raw)
            /\ \/ ~HasString(DictOf(codec.cookie, codec.raw), sResult)
               \/ GetString(DictOf(codec.cookie, codec.raw), sResult) \notin Recognised)
           => (codec.resp.Result = sError /\ codec.resp.ErrorReason # <<>>)

\* C12 as stated: for every Response an exchange returns, the error-reason is
\* non-empty exactly when the result is "error".
C12_Claim ==
    \A g \in Callers :
        calls[g].pc = "done" =>
            ((calls[g].resposta.ErrorReason # <<>>) <=> (calls[g].resposta.Result = sError))

\* whether dictionary d (a sequence of pairs) has key k, whatever its value
HasKey(d, k) == \E n \in 1..Len(d) : d[n][1] = k

\* the bytes after the cookie and the space of an encoded request
PayloadOf(cookie, data) == SliceFrom(data, Len(cookie) + 1)

\* EncodeComando has returned bytes for the request
Encoded == req.op \in {"encoded", "decoded"} /\ ~req.encErr

\* the dictionary read back from the encoded request
EncodedDict == AsDict(PayloadOf(req.cookie, req.data)).v

\* C13: the bytes EncodeComando returns are the cookie, one space and exactly one
\* bencoded dictionary; the first space is at index len(cookie); the dictionary binds
\* "command" to the request's command, also when the three aggregates are nil.
C13_WireFormat ==
    Encoded =>
        LET parsed == AsDict(PayloadOf(req.cookie, req.data))
        IN  /\ SliceTo(req.data, Len(req.cookie)) = req.cookie
            /\ req.data[Len(req.cookie) + 1] = SP
            /\ IndexAny(req.data, {SP}) = Len(req.cookie)
            /\ parsed.ok
            /\ parsed.next = Len(PayloadOf(req.cookie, req.data)) + 1
            /\ HasString(parsed.v, sCommand)
            /\ GetString(parsed.v, sCommand) = req.request.Command

\* &RequestRtp{Command: "ping"} has been encoded
C13_Witness ==
    /\ Encoded
    /\ req.request = CommandOnly(sPing, TRUE)
    /\ req.data = (req.cookie \o <<SP>>) \o <<"d","7",":","c","o","m","m","a","n","d","4",":","p","i","n","g","e">>

\* the wire key of each string field and of each list field
StringKeys ==
    [FromTag |-> sFromTag, ToTag |-> sToTag, CallId |-> sCallId,
     TransportProtocol |-> sTransportProtocol, MediaAddress |-> sMediaAddress, ICE |-> sICE,
     ViaBranch |-> sViaBranch, Sdp |-> sSdp, RecordCall |-> sRecordCall]

ListKeys ==
    [Flags |-> sFlags, Replace |-> sReplace, ReceivedFrom |-> sReceivedFrom, SDES |-> sSDES]

\* C14: a string field left unset and a list field unset or empty have no key in the
\* encoded dictionary, and no entry of the dictionary is an empty string or an empty
\* list; a delete request with only from-tag, to-tag and call-id has no "sdp" key.
C14_OmitUnset ==
    Encoded =>
        LET d == EncodedDict
            S == req.request.ParamsOptString
            A == req.request.ParamsOptStringArray
        IN  /\ \A f \in DOMAIN StringKeys :
                  (S = Nil \/ S[f] = <<>>) => ~HasKey(d, StringKeys[f])
            /\ \A f \in DOMAIN ListKeys :
                  (A = Nil \/ Len(A[f]) = 0) => ~HasKey(d, ListKeys[f])
            /\ \A n \in 1..Len(d) : d[n][2].t \in {"s", "l"} => d[n][2].v # <<>>
            /\ (req.request.Command = sDelete /\ S = TagsOnly) => ~HasKey(d, sSdp)

\* SDPDelete with the three tags and an empty flag list has been encoded
C14_Witness ==
    /\ Encoded
    /\ req.builder = "SDPDelete"
    /\ req.request.Command = sDelete
    /\ req.request.ParamsOptString = TagsOnly
    /\ req.options = <<OptList("SetFlags", <<>>)>>
    /\ HasKey(EncodedDict, sFromTag) /\ HasKey(EncodedDict, sToTag) /\ HasKey(EncodedDict, sCallId)

\* whether dictionary d has key k bound to an integer, and that integer
HasInt(d, k) == \E n \in 1..Len(d) : d[n][1] = k /\ d[n][2].t = "i"

GetInt(d, k) == LET n == CHOOSE m \in 1..Len(d) : d[m][1] = k /\ d[m][2].t = "i" IN d[n][2].v

\* the index of the last option of the list whose name is in ops, 0 when there is none
LastOf(options, ops) ==
    IF \E k \in 1..Len(options) : options[k].op \in ops
    THEN CHOOSE k \in 1..Len(options) :
             options[k].op \in ops /\ \A j \in (k + 1)..Len(options) : options[j].op \notin ops
    ELSE 0

\* a builder has returned a request that was then encoded
EncodedBuilt == Encoded /\ req.builder \in DOMAIN BuilderCommand

\* C15 as stated: an integer option set to 0 differs on the wire from the option
\* never set: the dictionary has the option's key, with the value last assigned,
\* exactly when the option was in the list.
C15_Claim ==
    EncodedBuilt =>
        LET d == EncodedDict
            present(key, name) ==
                LET k == LastOf(req.options, {name})
                IN  /\ k = 0 => ~HasKey(d, key)
                    /\ k # 0 => (HasInt(d, key) /\ GetInt(d, key) = req.options[k].n)
        IN  /\ present(sPtime, "SetPtimeCodecOffer")
            /\ present(sPtimeReverse, "SetPtimeCodecAnswer")

\* the wire key of each field of the decoded value
ResponseKeys ==
    [Result |-> sResult, Sdp |-> sSdp, ErrorReason |-> sErrorReason, Warning |-> sWarning,
     FromTag |-> sFromTag, ToTag |-> sToTag]

C17_PassThrough ==
    \A g \in Callers :
        ReadBytes(g) =>
            /\ calls[g].raw = Pad((calls[g].cookie \o <<SP>>) \o pPong)
                  => calls[g].resposta = [EmptyResponse EXCEPT !.Result = sPong]
            /\ calls[g].raw = Pad((calls[g].cookie \o <<SP>>) \o pOkSdp)
                  => calls[g].resposta = [EmptyResponse EXCEPT !.Result = sOk,
                                                                !.Sdp = <<"v","=","0">>]

\* one call got pong and the other ok with the sdp
C17_Witness ==
    \E g, h \in Callers :
        /\ ReadBytes(g) /\ calls[g].raw = Pad((calls[g].cookie \o <<SP>>) \o pPong)
        /\ ReadBytes(h) /\ calls[h].raw = Pad((calls[h].cookie \o <<SP>>) \o pOkSdp)

\* the options that assign a string field
StringOps == {"SetTransportProtocol", "ICERemove", "ICEForce", "SetViaBranchTag",
              "SetMediaAddress", "RecordYes", "RecordNo", "RecordOn", "RecordOff"}

\* C18: each builder starts from a request with its own command and with the integer
\* and list aggregates present and empty, returns a request with that command and
\* both aggregates non-nil, and no integer or list option faults on a missing aggregate.
C18_BuilderInit ==
    req.builder \in DOMAIN BuilderCommand =>
        /\ req.initial.Command = BuilderCommand[req.builder]
        /\ req.initial.ParamsOptInt = EmptyParamsOptInt
        /\ req.initial.ParamsOptStringArray = EmptyParamsOptStringArray
        /\ req.err = "nil" =>
              /\ req.request.Command = BuilderCommand[req.builder]
              /\ req.request.ParamsOptInt # Nil
              /\ req.request.ParamsOptStringArray # Nil
        /\ req.op = "panic" =>
              /\ req.options[req.invoked].op \in StringOps
              /\ req.initial.ParamsOptString = Nil

\* SDPAnswer has run an integer option and an appending list option
C18_Witness ==
    /\ req.op = "built"
    /\ req.builder = "SDPAnswer"
    /\ req.options = <<OptInt("SetPtimeCodecAnswer", 30),
                       OptList("SetFlags", <<TrustAddress, Symmetric>>)>>
    /\ req.request.Command = sAnswer
    /\ req.request.ParamsOptInt.PtimeReverse = 30
    /\ req.request.ParamsOptStringArray.Flags = <<TrustAddress, Symmetric>>

\* the index of the first option of the list that returns an error, 0 when none does
FirstFailing(options) ==
    IF \E k \in 1..Len(options) : options[k].op = "Failing"
    THEN CHOOSE k \in 1..Len(options) :
             options[k].op = "Failing" /\ \A j \in 1..(k - 1) : options[j].op # "Failing"
    ELSE 0

RECURSIVE InOrder(_, _, _)
\* the request after the first n options of the list, one after the other
InOrder(s, options, n) ==
    IF n = 0 THEN s ELSE Invoke(options[n], InOrder(s, options, n - 1)).s

\* C19: a builder runs its options in the order of the list; when option k is the
\* first to return an error, exactly k options were called, the builder returns the
\* error and no request, and the caller's parameters keep what the options before k
\* did; without an error the request is the result of all options in order.
C19_FailFast ==
    (req.op = "built" /\ req.builder \in DOMAIN BuilderCommand) =>
        LET k == FirstFailing(req.options)
        IN  /\ (req.err = "error") <=> (k # 0)
            /\ k # 0 =>
                  /\ req.request = Nil
                  /\ req.invoked = k
                  /\ req.parametros = InOrder(req.initial, req.options, k - 1).ParamsOptString
            /\ k = 0 =>
                  /\ req.invoked = Len(req.options)
                  /\ req.request = InOrder(req.initial, req.options, Len(req.options))

\* the first of two options failed: the second was not called and left no trace
C19_Witness ==
    /\ req.op = "built"
    /\ req.err = "error"
    /\ req.options = <<Opt("Failing"), OptStr("SetTransportProtocol", RTP_AVP)>>
    /\ req.invoked = 1
    /\ req.request = Nil
    /\ req.parametros = TagsOnly

\* the value a scalar option assigns
ScalarValue(o) ==
    CASE o.op = "ICERemove" -> <<"r","e","m","o","v","e">>
      [] o.op = "ICEForce" -> <<"f","o","r","c","e">>
      [] o.op = "RecordYes" -> <<"y","e","s">>
      [] o.op = "RecordNo" -> <<"n","o">>
      [] o.op = "RecordOn" -> <<"o","n">>
      [] o.op = "RecordOff" -> <<"o","f","f">>
      [] OTHER -> o.str

\* the options that assign a scalar field
ScalarOps == StringOps \cup {"SetPtimeCodecOffer", "SetPtimeCodecAnswer"}

\* C20: in the request a builder returns, each scalar field holds the value of the
\* last option of the list that assigns it (the caller's value when there is none),
\* and a scalar option listed twice with one argument gives what listing it once gives.
C20_LastWins ==
    (req.op = "built" /\ req.builder \in DOMAIN BuilderCommand /\ req.err = "nil") =>
        LET S == req.request.ParamsOptString
            I == req.request.ParamsOptInt
            str(f, ops) ==
                LET k == LastOf(req.options, ops)
                IN  S # Nil => S[f] = IF k = 0 THEN req.initial.ParamsOptString[f]
                                      ELSE ScalarValue(req.options[k])
            int(f, ops) ==
                LET k == LastOf(req.options, ops)
                IN  I[f] = IF k = 0 THEN 0 ELSE req.options[k].n
        IN  /\ str("TransportProtocol", {"SetTransportProtocol"})
            /\ str("ICE", {"ICERemove", "ICEForce"})
            /\ str("RecordCall", {"RecordYes", "RecordNo", "RecordOn", "RecordOff"})
            /\ str("ViaBranch", {"SetViaBranchTag"})
            /\ str("MediaAddress", {"SetMediaAddress"})
            /\ int("Ptime", {"SetPtimeCodecOffer"})
            /\ int("PtimeReverse", {"SetPtimeCodecAnswer"})
            /\ (/\ Len(req.options) = 2
                /\ req.options[1] = req.options[2]
                /\ req.options[1].op \in ScalarOps)
               => req.request = InOrder(req.initial, req.options, 1)

\* the transport protocol was set twice, to two values
C20_Witness ==
    /\ req.op = "built"
    /\ req.err = "nil"
    /\ req.options = <<OptStr("SetTransportProtocol", RTP_AVP),
                       OptStr("SetTransportProtocol", RTP_SAVP)>>
    /\ req.request.ParamsOptString.TransportProtocol = RTP_SAVP

\* the fixed prefix of the tokens of an option, and the list the tokens go to
TokenPrefix ==
    [SetCodecEncoder |-> <<"c","o","d","e","c","-","t","r","a","n","s","c","o","d","e","-">>,
     SetCodecMask |-> <<"c","o","d","e","c","-","m","a","s","k","-">>,
     SetCodecStrip |-> <<"c","o","d","e","c","-","s","t","r","i","p","-">>,
     SetCodecExcept |-> <<"c","o","d","e","c","-","e","x","c","e","p","t","-">>,
     DeleteSDES |-> <<"n","o","-">>,
     EnableSDES |-> <<"o","n","l","y","-">>]

TokenList ==
    [SetCodecEncoder |-> "Flags", SetCodecMask |-> "Flags", SetCodecStrip |-> "Flags",
     SetCodecExcept |-> "Flags", DeleteSDES |-> "SDES", EnableSDES |-> "SDES"]

\* a builder of SpecLists returned a request
BuiltLists == req.op = "built" /\ req.builder \in DOMAIN BuilderCommand /\ req.err = "nil"

\* C21: each of SetCodecEncoder, SetCodecMask, SetCodecStrip, SetCodecExcept, DeleteSDES
\* and EnableSDES leaves its list as the list before it followed by one token per input
\* element, in input order, each the option's prefix followed by the element; the
\* transcode of [PCMA, G729] on an empty list gives
\* [codec-transcode-PCMA, codec-transcode-G729].
C21_TokensAppended ==
    BuiltLists =>
        /\ \A k \in 1..Len(req.options) :
              LET o == req.options[k]
                  before == InOrder(req.initial, req.options, k - 1).ParamsOptStringArray
                  after == InOrder(req.initial, req.options, k).ParamsOptStringArray
              IN  o.op \in DOMAIN TokenPrefix =>
                      /\ after[TokenList[o.op]] =
                             before[TokenList[o.op]]
                                 \o [i \in 1..Len(o.list) |-> TokenPrefix[o.op] \o o.list[i]]
                      /\ \A f \in DOMAIN after : f # TokenList[o.op] => after[f] = before[f]
        /\ req.request = InOrder(req.initial, req.options, Len(req.options))
        /\ req.options = <<OptList("SetCodecEncoder", <<CODEC_PCMA, CODEC_G729>>)>>
              => req.request.ParamsOptStringArray.Flags =
                     << <<"c","o","d","e","c","-","t","r","a","n","s","c","o","d","e","-",
                          "P","C","M","A">>,
                        <<"c","o","d","e","c","-","t","r","a","n","s","c","o","d","e","-",
                          "G","7","2","9">> >>

\* the transcode tokens of two codecs came after a flag that was already in the list
C21_Witness ==
    /\ BuiltLists
    /\ req.options = <<OptList("SetFlags", <<TrustAddress>>),
                       OptList("SetCodecEncoder", <<CODEC_PCMA, CODEC_G729>>)>>
    /\ Len(req.request.ParamsOptStringArray.Flags) = 3
    /\ req.request.ParamsOptStringArray.Flags[1] = TrustAddress

\* C22: after SetReceivedFrom(family, address) the received-from list is the list
\* before the option followed by family and address, so earlier entries are kept.
C22_Claim ==
    BuiltLists =>
        \A k \in 1..Len(req.options) :
            LET o == req.options[k]
                before == InOrder(req.initial, req.options, k - 1).ParamsOptStringArray
                after == InOrder(req.initial, req.options, k).ParamsOptStringArray
            IN  /\ req.request = InOrder(req.initial, req.options, Len(req.options))
                /\ o.op = "SetReceivedFrom" =>
                       after.ReceivedFrom = before.ReceivedFrom \o <<o.list[1], o.list[2]>>

\* the index of the last option of the list named op, 0 when there is none
LastClientOption(options, op) ==
    IF \E k \in 1..Len(options) : options[k].op = op
    THEN CHOOSE k \in 1..Len(options) :
             options[k].op = op /\ \A j \in (k + 1)..Len(options) : options[j].op # op
    ELSE 0

\* t milliseconds as a time.Duration
Milliseconds(t) == [secs |-> t \div 1000, nanos |-> (t % 1000) * Millisecond]

\* C23: a client built with WithClientTimeout(t) has a timeout of t milliseconds
\* (5000 gives 5 seconds), and one built without the option has 10 seconds.
C23_Claim ==
    client.state # "none" =>
        LET k == LastClientOption(client.options, "WithClientTimeout")
        IN  client.timeout = IF k = 0 THEN [secs |-> 10, nanos |-> 0]
                             ELSE Milliseconds(client.options[k].n)

\* C24: a client NewClient returned without error for the protocol "udp" has a
\* non-nil con handle, and that is the handle the exchange uses.
C24_Claim ==
    (client.state = "ready" /\ client.proto = "udp") =>
        client.con # "nil" /\ Handle = client.con

\* C25: with WithClientIP(h) among the options, for an Engine with or without an ip
\* already set and at any position among options that set no address, the address
\* the client connects to is h.
C25_Claim ==
    client.state # "none" =>
        LET k == LastClientOption(client.options, "WithClientIP")
        IN  k # 0 => client.ip = [valid |-> TRUE, text |-> client.options[k].str]

\* the call returned after its Read exceeded the deadline
ReadTimedOut(g) == calls[g].pc = "done" /\ calls[g].rerr = "timeout"

\* the call returned after the channel failed its Write or its Read
ChannelFailed(g) ==
    calls[g].pc = "done" /\ (calls[g].err \in {"write", "closed"} \/ calls[g].rerr \in {"read", "closed"})

Started == {g \in Callers : calls[g].pc # "idle"}

\* C27: every NewComando call draws one new cookie before encoding; that cookie is
\* the prefix of the bytes the call writes and the expected cookie of the decoding of
\* its read; no cookie is kept on the client and no two calls use the same one.
C27_CookieLifecycle ==
    /\ ncalls = Cardinality(Started)
    /\ \A g \in Started : \E n \in 0..(ncalls - 1) : calls[g].cookie = GetCookie(n)
    /\ \A g, h \in Started : g # h => calls[g].cookie # calls[h].cookie
    /\ sent \subseteq {calls[g].cookie :
                          g \in {h \in Started : calls[h].nWrites = 1 /\ calls[h].err = "nil"}}
    /\ \A g \in Callers :
          ReadBytes(g) => calls[g].resposta = DecodeResposta(calls[g].cookie, calls[g].raw)
    /\ "cookie" \notin DOMAIN client

\* two calls have written under two cookies and one has decoded its own answer
C27_Witness ==
    \E g, h \in Callers :
        /\ g # h
        /\ calls[g].nWrites = 1 /\ calls[h].cookie \in sent
        /\ calls[g].cookie # calls[h].cookie
        /\ ReadBytes(g)
        /\ calls[g].raw = Pad((calls[g].cookie \o <<SP>>) \o pPong)
        /\ calls[g].resposta.Result = sPong

\* the datagram is the answer to the request of call g
AnswerTo(g, d) ==
    /\ Len(d) > Len(calls[g].cookie)
    /\ SliceTo(d, Len(calls[g].cookie) + 1) = calls[g].cookie \o <<SP>>

\* C28: after an exchange whose read timed out, its response arriving later stays
\* queued; the single read of the next exchange obtains it and that exchange
\* returns the cookie-mismatch error, its own response staying queued.
C28_Claim ==
    [][\A g, h \in Callers :
          (/\ g # h
           /\ ReadTimedOut(g)
           /\ calls[h].pc = "sleep" /\ calls[h].late
           /\ calls'[h].pc = "done"
           /\ client.fault = "none" /\ Handle = "open"
           /\ inbox # <<>> /\ AnswerTo(g, Head(inbox)))
          => (/\ calls'[h].rerr = "nil"
              /\ calls'[h].raw = Pad(Head(inbox))
              /\ calls'[h].resposta = CookieMismatchResponse
              /\ inbox' = Tail(inbox))]_vars

\* C29: for every field of the request aggregates and of the Response (start-pos and
\* the RTP and RTCP counters of the totals included) the key the encoder writes is
\* the key the decoder reads, no two fields of one structure share a key, and an
\* encoded start position stands in the dictionary under the decoder's name for it.
C29_Claim ==
    /\ \A t \in WireNames : EncoderKey(t) = DecoderKey(t)
    /\ \A t, u \in WireNames :
          (t.struct = u.struct /\ t.field # u.field)
              => (EncoderKey(t) # EncoderKey(u) /\ DecoderKey(t) # DecoderKey(u))
    /\ (Encoded /\ req.request.ParamsOptInt # Nil /\ req.request.ParamsOptInt.StartPos # 0)
          => /\ HasInt(EncodedDict, sStartPos)
             /\ GetInt(EncodedDict, sStartPos) = req.request.ParamsOptInt.StartPos

\* the string fields and the options that assign each
StringFieldOps ==
    [TransportProtocol |-> {"SetTransportProtocol"}, ICE |-> {"ICERemove", "ICEForce"},
     RecordCall |-> {"RecordYes", "RecordNo", "RecordOn", "RecordOff"},
     ViaBranch |-> {"SetViaBranchTag"}, MediaAddress |-> {"SetMediaAddress"}]

\* C30: a builder keeps the caller's string-parameter record by reference and makes
\* fresh integer and list aggregates: what the string options of a second builder
\* call write is in the caller's record and in the first request built from it,
\* while the integer and list options of either call change neither the other
\* request nor the caller's record.
C30_Aliasing ==
    (req.op = "built2" /\ req.err2 = "nil") =>
        LET first == InOrder(req.initial, req.options, Len(req.options))
            fresh == InOrder([req.initial EXCEPT !.Command = req.second.Command],
                             req.options2, Len(req.options2))
        IN  /\ req.request.ParamsOptString = req.parametros
            /\ req.second.ParamsOptString = req.parametros
            /\ req.parametros # Nil =>
                  \A f \in DOMAIN StringFieldOps :
                      LET k == LastOf(req.options2, StringFieldOps[f])
                      IN  req.request.ParamsOptString[f] =
                              IF k = 0 THEN first.ParamsOptString[f]
                              ELSE ScalarValue(req.options2[k])
            /\ req.request.ParamsOptInt = first.ParamsOptInt
            /\ req.request.ParamsOptStringArray = first.ParamsOptStringArray
            /\ req.second.ParamsOptInt = fresh.ParamsOptInt
            /\ req.second.ParamsOptStringArray = fresh.ParamsOptStringArray
            /\ req.parametros # Nil => DOMAIN req.parametros = DOMAIN EmptyParamsOptString

\* the first request was built with flags and a ptime, the second set the transport
\* protocol: the first shows the protocol, the second has neither flags nor ptime
C30_Witness ==
    /\ req.op = "built2"
    /\ req.err2 = "nil"
    /\ req.options = <<OptList("SetFlags", <<TrustAddress>>), OptInt("SetPtimeCodecOffer", 20)>>
    /\ req.options2 = <<OptStr("SetTransportProtocol", RTP_SAVP)>>
    /\ req.request.ParamsOptString.TransportProtocol = RTP_SAVP
    /\ req.parametros.TransportProtocol = RTP_SAVP
    /\ req.request.ParamsOptInt.Ptime = 20
    /\ req.second.ParamsOptInt.Ptime = 0
    /\ req.second.ParamsOptStringArray.Flags = <<>>

====
